---- MODULE Spec2Model ----
(***************************************************************************)
(* A model of xcli: the command tree (Command), its resolver (run_sub and  *)
(* locate_subcommand), the application shell (App: the user-data registry  *)
(* and the read-resolve-execute loop of App::run) and the prefix completer *)
(* (PrefixNode, PrefixCompleter).                                          *)
(*                                                                         *)
(* Strings the program inspects character by character (command names,     *)
(* aliases, usage texts, input lines, tokens) are sequences of one         *)
(* character strings, so that split_ascii_whitespace, trim_start,          *)
(* starts_with and slicing are computed and not assumed.  Texts that are   *)
(* only printed (about, the application's name) are TLA+ strings.          *)
(* Option<T> is the empty sequence (None) or a one element sequence        *)
(* (Some).  What the program prints is a sequence of lines, each a tuple   *)
(* whose first element names the println! that produced it.                *)
(***************************************************************************)
EXTENDS Integers, Sequences, FiniteSets, TLC

VARIABLES
    app,        \* App: name, version, author, tree, handlers
    helper,     \* rl.helper(): None, or Some(PrefixCompleter) once run() set it
    edit_mode,  \* rl.config().edit_mode()
    max_level,  \* log::max_level(), the global log level filter
    pc,         \* where the program is: "build", "loop", "confirm", "done", ...
    last        \* what the last operation was given and what it produced

vars == <<app, helper, edit_mode, max_level, pc, last>>

None == <<>>
Some(x) == <<x>>

----------------------------------------------------------------------------
(* Character strings.                                                      *)

s_empty == <<>>
s_tree == <<"t","r","e","e">>
s_mode == <<"m","o","d","e">>
s_log == <<"l","o","g">>
s_l == <<"l">>
s_help == <<"h","e","l","p">>
s_h == <<"h">>
s_exit == <<"e","x","i","t">>
s_version == <<"v","e","r","s","i","o","n">>
s_v == <<"v">>
s_test1 == <<"t","e","s","t","1">>
s_t1 == <<"t","1">>
s_mismatch == <<"m","i","s","m","a","t","c","h">>
s_mm == <<"m","m">>
s_bad == <<"b","a","d">>
s_missing == <<"m","i","s","s","i","n","g">>
s_userdata == <<"u","s","e","r","d","a","t","a">>
s_ud == <<"u","d">>
s_vi == <<"v","i">>
s_emacs == <<"e","m","a","c","s">>
s_off == <<"o","f","f">>
s_error == <<"e","r","r","o","r">>
s_warn == <<"w","a","r","n">>
s_info == <<"i","n","f","o">>
s_debug == <<"d","e","b","u","g">>
s_trace == <<"t","r","a","c","e">>
s_level == <<"l","e","v","e","l">>
s_cfg == <<"c","f","g">>
s_show == <<"s","h","o","w">>
s_s == <<"s">>
s_set == <<"s","e","t">>
s_yes == <<"y","e","s">>
s_x == <<"x">>
s_y == <<"y">>
s_Y == <<"Y">>
s_n == <<"n">>
s_usage_mode == <<"m","o","d","e"," ","[","v","i","|","e","m","a","c","s","]">>
s_usage_log == <<"l","o","g"," ","[","o","f","f","|","e","r","r","o","r","|","w","a","r","n","|","i","n","f","o","|","d","e","b","u","g","|","t","r","a","c","e","]">>
s_usage_help == <<"h","e","l","p"," ","[","c","o","m","m","a","n","d","]">>

(* u8::is_ascii_whitespace: space, tab, line feed, form feed, carriage return *)
IsSpace(c) == c \in {" ", "\t", "\n", "\f", "\r"}

(* str::starts_with *)
StartsWith(s, p) == Len(p) <= Len(s) /\ SubSeq(s, 1, Len(p)) = p

(* s[n..] *)
From(s, n) == SubSeq(s, n + 1, Len(s))

(* s[..n] *)
Upto(s, n) == SubSeq(s, 1, n)

(* the text left as it is *)
NoTrim(s) == s

(* str::trim_start *)
RECURSIVE TrimStart(_)
TrimStart(s) ==
    IF s # <<>> /\ IsSpace(s[1]) THEN TrimStart(Tail(s)) ELSE s

(* the length of the first run of non-whitespace characters of s *)
RECURSIVE WordLen(_)
WordLen(s) ==
    IF s = <<>> \/ IsSpace(s[1]) THEN 0 ELSE 1 + WordLen(Tail(s))

(* str::split_ascii_whitespace().collect::<Vec<_>>() *)
RECURSIVE SplitAsciiWhitespace(_)
SplitAsciiWhitespace(s) ==
    LET t == TrimStart(s)
        n == WordLen(t)
    IN  IF t = <<>> THEN <<>>
        ELSE <<Upto(t, n)>> \o SplitAsciiWhitespace(From(t, n))

Uppers == <<"A","B","C","D","E","F","G","H","I","J","K","L","M",
            "N","O","P","Q","R","S","T","U","V","W","X","Y","Z">>
Lowers == <<"a","b","c","d","e","f","g","h","i","j","k","l","m",
            "n","o","p","q","r","s","t","u","v","w","x","y","z">>

(* char::to_lowercase, on ASCII *)
LowerChar(c) ==
    IF \E i \in 1..Len(Uppers) : Uppers[i] = c
    THEN Lowers[CHOOSE i \in 1..Len(Uppers) : Uppers[i] = c]
    ELSE c

ToLowercase(s) == [i \in 1..Len(s) |-> LowerChar(s[i])]

----------------------------------------------------------------------------
(* Command and its builder.                                                *)

(* Command::new *)
CommandNew(n) ==
    [name |-> n, alias |-> None, about |-> None, usage |-> None,
     subcommands |-> <<>>, action |-> None]

(* Command::new_with_alias *)
CommandNewWithAlias(n, s) ==
    [name |-> n, alias |-> Some(s), about |-> None, usage |-> None,
     subcommands |-> <<>>, action |-> None]

(* Command::action: the action is named, RunAction gives what it does *)
WithAction(cmd, act) == [cmd EXCEPT !.action = Some(act)]

(* Command::about *)
WithAbout(cmd, text) == [cmd EXCEPT !.about = Some(text)]

(* Command::usage *)
WithUsage(cmd, text) == [cmd EXCEPT !.usage = Some(text)]

(* Command::subcommand *)
WithSubcommand(cmd, subcmd) ==
    [cmd EXCEPT !.subcommands = Append(cmd.subcommands, subcmd)]

(* Command::get_description *)
get_description(cmd) ==
    IF cmd.alias # None
    THEN cmd.name \o <<",", " ">> \o cmd.alias[1] \o <<" ">>
    ELSE cmd.name

(* usage.unwrap_or_else(|| name) *)
UsageOrName(cmd) == IF cmd.usage # None THEN cmd.usage[1] ELSE cmd.name

(* about.unwrap_or("") *)
AboutOrEmpty(cmd) == IF cmd.about # None THEN cmd.about[1] ELSE ""

(* the root of App::new, with the built-in commands in their order *)
BuiltinCmds ==
    LET c0 == WithAbout(CommandNew(s_empty), "Interactive CLI")
        c1 == WithSubcommand(c0,
                WithAction(WithUsage(WithAbout(CommandNew(s_tree),
                    "prints the whole command tree"), s_tree), "tree"))
        c2 == WithSubcommand(c1,
                WithAction(WithUsage(WithAbout(CommandNew(s_mode),
                    "manages the line editor mode, vi/emcas"), s_usage_mode), "cli_mode"))
        c3 == WithSubcommand(c2,
                WithAction(WithUsage(WithAbout(CommandNewWithAlias(s_log, s_l),
                    "manages log level filter"), s_usage_log), "cli_log"))
        c4 == WithSubcommand(c3,
                WithAction(WithUsage(WithAbout(CommandNewWithAlias(s_help, s_h),
                    "displays help information"), s_usage_help), "cli_help"))
        c5 == WithSubcommand(c4,
                WithAction(WithAbout(CommandNew(s_exit),
                    "quits CLI and exits to shell"), "exit"))
        c6 == WithSubcommand(c5,
                WithAction(WithAbout(CommandNewWithAlias(s_version, s_v),
                    "shows version information"), "version"))
    IN  c6

(* App::new("xCLI").version("v0.1").author(...) *)
AppNew ==
    [name |-> "xCLI", version |-> Some("v0.1"), author |-> Some("kingwel.xie@139.com"),
     tree |-> BuiltinCmds, handlers |-> [k \in {} |-> None]]

----------------------------------------------------------------------------
(* Results, errors and what is printed.                                    *)

OkOk == <<"Ok", "Ok">>
OkExit == <<"Ok", "Exit">>
Err(e) == <<"Err", e>>
(* a panic unwinding out of an action (Result::unwrap, Option::expect) *)
Panic(what) == <<"Panic", what>>

IsErr(r) == r[1] = "Err"

BadSyntax == <<"BadSyntax">>
MissingHandler(s) == <<"MissingHandler", s>>
MissingArgument == <<"MissingArgument">>
BadArgument(s) == <<"BadArgument", s>>
MismatchArgument(wanted, actual) == <<"MismatchArgument", wanted, actual>>
Other(s) == <<"Other", s>>

(* the #[error(...)] Display of XcliError, piece by piece *)
Display(e) ==
    CASE e[1] = "BadSyntax" -> <<"Bad syntax">>
      [] e[1] = "MissingHandler" -> <<"Missing handler: ", e[2], " not found">>
      [] e[1] = "MissingArgument" -> <<"Missing required argument">>
      [] e[1] = "BadArgument" -> <<"Bad argument: ", e[2]>>
      [] e[1] = "MismatchArgument" ->
            <<"Mismatched argument(s): wanted: ", e[2], ", actual: ", e[3]>>
      [] e[1] = "Other" -> <<e[2]>>

(* Command::show_command_usage *)
show_command_usage(self) == << <<"Usage", UsageOrName(self)>> >>

(* Command::show_command_help *)
show_command_help(self) ==
    << <<"Command", get_description(self), UsageOrName(self), AboutOrEmpty(self)>> >>

(* Command::show_subcommand_help: one line per child, in child order *)
show_subcommand_help(self) ==
    [i \in 1..Len(self.subcommands) |->
        <<"Summary", get_description(self.subcommands[i]),
          UsageOrName(self.subcommands[i])>>]

----------------------------------------------------------------------------
(* The resolver.                                                           *)

(* the alias forgotten *)
MatchesNameOnly(c, token) == token = c.name

(* the test of run_sub and locate_subcommand: name or alias equals the token *)
Matches(c, token) ==
    token = c.name \/ (c.alias # None /\ c.alias[1] = token)

(* the loop without its early return: the last matching child wins *)
LastMatch(self, token) ==
    LET hits == {i \in 1..Len(self.subcommands) : Matches(self.subcommands[i], token)}
    IN  IF hits = {} THEN 0 ELSE CHOOSE i \in hits : \A j \in hits : i >= j

(* the first child, in child order, that matches the token; 0 when none does *)
FirstMatch(self, token) ==
    LET hits == {i \in 1..Len(self.subcommands) : Matches(self.subcommands[i], token)}
    IN  IF hits = {} THEN 0 ELSE CHOOSE i \in hits : \A j \in hits : i <= j

(* the node at a path of child indexes below root *)
RECURSIVE NodeAt(_, _)
NodeAt(root, path) ==
    IF path = <<>> THEN root
    ELSE NodeAt(root.subcommands[path[1]], Tail(path))

(* locate_subcommand falling back to the node reached, as run_sub does *)
RECURSIVE locate_subcommand_partial(_, _, _)
locate_subcommand_partial(self, args, path) ==
    IF args # <<>>
    THEN LET found == FirstMatch(self, args[1])
         IN  IF found # 0
             THEN locate_subcommand_partial(self.subcommands[found], Tail(args),
                                            Append(path, found))
             ELSE Some(path)
    ELSE Some(path)

(* Command::locate_subcommand.  The node found is named by its path from   *)
(* the node the search started at; path is the path walked so far.         *)
RECURSIVE locate_subcommand(_, _, _)
locate_subcommand(self, args, path) ==
    IF args # <<>>
    THEN LET found == FirstMatch(self, args[1])
         IN  IF found # 0
             THEN locate_subcommand(self.subcommands[found], Tail(args),
                                    Append(path, found))
             ELSE None
    ELSE Some(path)

----------------------------------------------------------------------------
(* The prefix completer's tree.                                            *)

(* the node labelled with the alias when the command has one *)
PrefixNodeNewAlias(cmd) ==
    [name |-> (IF cmd.alias # <<>> THEN cmd.alias[1] ELSE cmd.name) \o <<" ">>,
     children |-> <<>>]

(* PrefixNode::new *)
PrefixNodeNew(cmd) == [name |-> cmd.name \o <<" ">>, children |-> <<>>]

(* PrefixCompleter::generate_cmd_tree, returning the node it adds to parent *)
RECURSIVE generate_cmd_tree(_)
generate_cmd_tree(cmd) ==
    [PrefixNodeNew(cmd) EXCEPT
        !.children = [i \in 1..Len(cmd.subcommands) |->
                        generate_cmd_tree(cmd.subcommands[i])]]

(* PrefixCompleter::new *)
PrefixCompleterNew(cmd_tree) ==
    [tree |-> [PrefixNodeNew(cmd_tree) EXCEPT
        !.children = [i \in 1..Len(cmd_tree.subcommands) |->
                        generate_cmd_tree(cmd_tree.subcommands[i])]]]

(* the concatenation of a sequence of sequences *)
RECURSIVE Flatten(_)
Flatten(ss) == IF ss = <<>> THEN <<>> ELSE Head(ss) \o Flatten(Tail(ss))

(* PrefixCompleter::_print_tree: the lines written, each the number of     *)
(* dashes after the branch mark (0: no mark) and the node's name           *)
RECURSIVE print_tree_lines(_, _)
print_tree_lines(node, level) ==
    LET own == IF node.name # <<>>
               THEN << <<IF level > 0 THEN level * 4 - 2 ELSE 0, node.name>> >>
               ELSE <<>>
        next == IF node.name # <<>> THEN level + 1 ELSE level
    IN  own \o Flatten([i \in 1..Len(node.children) |->
                            print_tree_lines(node.children[i], next)])

(* PrefixCompleter::print_tree *)
print_tree(completer) == << <<"Tree", print_tree_lines(completer.tree, 0)>> >>

(* the whole name pushed for a partial match *)
PartialFragmentWhole(child, line) == child.name

(* what a partial match pushes: child.name[line.len()..] *)
PartialFragment(child, line) == From(child.name, Len(line))

(* what a full match pushes: " " when the text is exactly the name *)
FullFragment(child, line) ==
    IF Len(line) = Len(child.name) THEN <<" ">> ELSE child.name

(* the loop of _complete_cmd over the children from the i-th on, line     *)
(* being the trimmed text up to the cursor.  acc holds the loop's          *)
(* variables new_line, offset, next_node (a child index, 0 for None) and   *)
(* go_next, and hits: which branch each matching child took.               *)
RECURSIVE ScanChildren(_, _, _, _)
ScanChildren(node, i, line, acc) ==
    IF i > Len(node.children) THEN acc
    ELSE LET child == node.children[i]
             step ==
                IF Len(line) >= Len(child.name)
                THEN IF StartsWith(line, child.name)
                     THEN [new_line |->
                              Append(acc.new_line, FullFragment(child, line)),
                           offset |-> Len(child.name),
                           next_node |-> i,
                           go_next |-> TRUE,
                           hits |-> Append(acc.hits,
                                     <<i, IF Len(line) = Len(child.name)
                                          THEN "full exact" ELSE "full">>)]
                     ELSE acc
                ELSE IF StartsWith(child.name, line)
                THEN [new_line |-> Append(acc.new_line, PartialFragment(child, line)),
                      offset |-> Len(line),
                      next_node |-> i,
                      go_next |-> acc.go_next,
                      hits |-> Append(acc.hits, <<i, "partial">>)]
                ELSE acc
         IN  ScanChildren(node, i + 1, line, step)

(* PrefixCompleter::_complete_cmd.  v is the Vec<String> returned; levels  *)
(* keeps, for each call of the recursion in turn, the text it scanned and  *)
(* what its loop left.                                                     *)
RECURSIVE _complete_cmd(_, _, _)
_complete_cmd(node, line0, pos) ==
    LET line == TrimStart(Upto(line0, pos))
        acc == ScanChildren(node, 1, line,
                    [new_line |-> <<>>, offset |-> 0, next_node |-> 0,
                     go_next |-> FALSE, hits |-> <<>>])
        level == [scan |-> line, new_line |-> acc.new_line, offset |-> acc.offset,
                  go_next |-> acc.go_next, hits |-> acc.hits]
    IN  IF Len(acc.new_line) # 1
        THEN [v |-> acc.new_line, levels |-> <<level>>]
        ELSE IF acc.go_next
        THEN LET rest == TrimStart(From(line, acc.offset))
                 deeper == _complete_cmd(node.children[acc.next_node], rest, Len(rest))
             IN  [v |-> deeper.v, levels |-> <<level>> \o deeper.levels]
        ELSE [v |-> acc.new_line, levels |-> <<level>>]

(* the loop's offset returned in place of the cursor position *)
complete_cmd_scan_offset(self, line, pos) ==
    LET c == _complete_cmd(self.tree, line, pos)
    IN  [ret |-> <<c.levels[1].offset, c.v>>, levels |-> c.levels]

(* PrefixCompleter::complete_cmd: Ok((pos, v)) *)
complete_cmd(self, line, pos) ==
    LET c == _complete_cmd(self.tree, line, pos)
    IN  [ret |-> <<pos, c.v>>, levels |-> c.levels]

----------------------------------------------------------------------------
(* The application's registry and the actions.                             *)

(* App::get_handler *)
get_handler(self, key) ==
    IF key \in DOMAIN self.handlers
    THEN <<"Ok", self.handlers[key]>>
    ELSE Err(MissingHandler(key))

(* str::parse::<LevelFilter>(): the level whose name equals s, ignoring    *)
(* ASCII case; None is the ParseLevelError                                 *)
ParseLevelFilter(s) ==
    LET t == ToLowercase(s)
    IN  CASE t = s_off -> Some("OFF")
          [] t = s_error -> Some("ERROR")
          [] t = s_warn -> Some("WARN")
          [] t = s_info -> Some("INFO")
          [] t = s_debug -> Some("DEBUG")
          [] t = s_trace -> Some("TRACE")
          [] OTHER -> None

(* what an action gives back: its result, what it printed, and the log     *)
(* level and edit mode it leaves                                           *)
Done(ctx, ret, out) ==
    [ret |-> ret, out |-> out, level |-> ctx.level, mode |-> ctx.mode]

(* the closure of the `tree` command: app.show_tree() *)
action_tree(ctx, args) ==
    IF ctx.helper = None
    THEN Done(ctx, Panic("helper().unwrap()"), <<>>)
    ELSE Done(ctx, OkOk, print_tree(ctx.helper[1]))

(* cli_mode *)
cli_mode(ctx, args) ==
    CASE Len(args) = 0 ->
            Done(ctx, OkOk, << <<"Current edit mode is", ctx.mode>> >>)
      [] Len(args) = 1 ->
            LET bad == ToLowercase(args[1])
            IN  CASE bad = s_vi -> [Done(ctx, OkOk, <<>>) EXCEPT !.mode = "Vi"]
                  [] bad = s_emacs -> [Done(ctx, OkOk, <<>>) EXCEPT !.mode = "Emacs"]
                  [] OTHER -> Done(ctx, Err(BadArgument(bad)), <<>>)
      [] OTHER -> Done(ctx, Err(BadSyntax), <<>>)

(* cli_log *)
cli_log(ctx, args) ==
    CASE Len(args) = 0 ->
            Done(ctx, OkOk, << <<"Global log level is", ctx.level>> >>)
      [] Len(args) = 1 ->
            LET level == ParseLevelFilter(args[1])
            IN  IF level # None
                THEN [Done(ctx, OkOk, <<>>) EXCEPT !.level = level[1]]
                ELSE Done(ctx, Err(BadArgument(<<args[1], "ParseLevelError">>)), <<>>)
      [] OTHER -> Done(ctx, Err(BadSyntax), <<>>)

(* cli_help *)
cli_help(ctx, args) ==
    IF args = <<>>
    THEN Done(ctx, OkOk, show_subcommand_help(ctx.app.tree))
    ELSE LET cmd == locate_subcommand(ctx.app.tree, args, <<>>)
         IN  IF cmd # None
             THEN Done(ctx, OkOk, show_command_help(NodeAt(ctx.app.tree, cmd[1])))
             ELSE Done(ctx, OkOk, << <<"Unrecognized command", args>> >>)

(* the closure of the `version` command *)
action_version(ctx, args) ==
    Done(ctx, OkOk,
         << <<"Version", ctx.app.name,
              IF ctx.app.author # None THEN ctx.app.author[1] ELSE "",
              IF ctx.app.version # None THEN ctx.app.version[1] ELSE "">> >>)

(* the closure of the example's `userdata` command:                        *)
(* get_handler("userdata").unwrap(), downcast_ref::<usize>().expect(..)    *)
action_userdata(ctx, args) ==
    LET data_any == get_handler(ctx.app, s_userdata)
    IN  IF IsErr(data_any)
        THEN Done(ctx, Panic("get_handler().unwrap()"), <<>>)
        ELSE IF data_any[2].type # "usize"
        THEN Done(ctx, Panic("expect(usize)"), <<>>)
        ELSE Done(ctx, OkOk, << <<"userdata =", data_any[2].value>> >>)

(* action(app, &args): the CmdAction a command carries *)
RunAction(act, ctx, args) ==
    CASE act = "tree" -> action_tree(ctx, args)
      [] act = "cli_mode" -> cli_mode(ctx, args)
      [] act = "cli_log" -> cli_log(ctx, args)
      [] act = "cli_help" -> cli_help(ctx, args)
      [] act = "exit" -> Done(ctx, OkExit, <<>>)
      [] act = "version" -> action_version(ctx, args)
      [] act = "test1" ->
            [Done(ctx, OkOk, << <<"tested">> >>) EXCEPT !.level = "INFO"]
      [] act = "mismatch" -> Done(ctx, Err(MismatchArgument(10, Len(args))), <<>>)
      [] act = "bad" -> Done(ctx, Err(BadArgument(s_bad)), <<>>)
      [] act = "missing" -> Done(ctx, Err(MissingArgument), <<>>)
      [] act = "userdata" -> action_userdata(ctx, args)
      [] act = "qwert" -> Done(ctx, OkOk, << <<"qwert tested">> >>)
      [] act = "other" -> Done(ctx, Err(Other(s_x)), <<>>)

(* Command::run_sub, the part after the loop when self has an action: the  *)
(* action is called with the tokens left, its error is printed, its result *)
(* returned.  Besides the result and what was printed (out: the action's   *)
(* lines, then printed: the resolver's own), the record keeps the calls    *)
(* made to actions (invoked), the node dispatched to (target, its path     *)
(* from the root) and the tokens left over at it.                          *)
hit_action(self, ctx, args, path) ==
    LET r == RunAction(self.action[1], ctx, args)
        printed ==
            CASE r.ret[1] = "Err" /\ r.ret[2][1] = "Other" ->
                    << <<"println", Display(r.ret[2])>> >>
              [] r.ret[1] = "Err" /\ r.ret[2][1] # "Other" ->
                    << <<"println_nl", Display(r.ret[2])>> >>
                       \o show_command_usage(self)
              [] OTHER -> <<>>
    IN  [ret |-> r.ret, out |-> r.out \o printed, printed |-> printed,
         invoked |-> << [path |-> path, args |-> args] >>,
         target |-> path, leftover |-> args,
         level |-> r.level, mode |-> r.mode]

(* the help printed whether or not tokens are left *)
no_action_always_help(self, ctx, args, path) ==
    LET printed == show_command_help(self) \o show_subcommand_help(self)
    IN  [ret |-> OkOk, out |-> printed, printed |-> printed,
         invoked |-> <<>>, target |-> path, leftover |-> args,
         level |-> ctx.level, mode |-> ctx.mode]

(* Command::run_sub, the part after the loop when self has no action *)
no_action(self, ctx, args, path) ==
    LET printed ==
            IF args # <<>>
            THEN << <<"Unknown command or arguments", args>> >>
            ELSE show_command_help(self) \o show_subcommand_help(self)
    IN  [ret |-> OkOk, out |-> printed, printed |-> printed,
         invoked |-> <<>>, target |-> path, leftover |-> args,
         level |-> ctx.level, mode |-> ctx.mode]

(* the action given the tokens without the one that matched no child *)
run_here_drops_token(self, ctx, args, path) ==
    IF self.action # None
    THEN hit_action(self, ctx, IF args # <<>> THEN Tail(args) ELSE args, path)
    ELSE no_action(self, ctx, args, path)

(* the action's error printed and then swallowed *)
run_here_swallows_error(self, ctx, args, path) ==
    IF self.action # None
    THEN LET r == hit_action(self, ctx, args, path)
         IN  [r EXCEPT !.ret = IF IsErr(r.ret) THEN OkOk ELSE r.ret]
    ELSE no_action(self, ctx, args, path)

(* Command::run_sub, all of it after the loop over the children *)
run_here(self, ctx, args, path) ==
    IF self.action # None
    THEN hit_action(self, ctx, args, path)
    ELSE no_action(self, ctx, args, path)

(* Command::run_sub.  path is the path of self from the root. *)
RECURSIVE run_sub(_, _, _, _)
run_sub(self, ctx, args, path) ==
    LET cmd == IF args # <<>> THEN FirstMatch(self, args[1]) ELSE 0
    IN  IF cmd # 0
        THEN run_sub(self.subcommands[cmd], ctx, Tail(args), Append(path, cmd))
        ELSE run_here(self, ctx, args, path)

----------------------------------------------------------------------------
(* The commands an application registers, and the lines it is given.       *)

(* the most commands the application adds to the root before it runs *)
MaxCmds == 2

(* the commands of examples/xcli_simple.rs *)
cmd_test1 ==
    WithAction(WithAbout(CommandNewWithAlias(s_test1, s_t1),
        "controls testing features"), "test1")
cmd_mismatch ==
    WithAction(WithAbout(CommandNewWithAlias(s_mismatch, s_mm),
        "controls testing features"), "mismatch")
cmd_bad ==
    WithAction(WithAbout(CommandNewWithAlias(s_bad, <<"b">>),
        "controls testing features"), "bad")
cmd_missing ==
    WithAction(WithAbout(CommandNewWithAlias(s_missing, s_mm),
        "controls testing features"), "missing")
cmd_userdata ==
    WithAction(WithAbout(CommandNewWithAlias(s_userdata, s_ud),
        "controls testing features"), "userdata")

(* a category: no action, two children, one of them failing with Other *)
cmd_cfg ==
    WithSubcommand(
        WithSubcommand(
            WithAbout(CommandNew(s_cfg), "configuration"),
            WithAction(CommandNewWithAlias(s_show, s_s), "qwert")),
        WithAction(CommandNew(s_set), "other"))

(* a user command whose name is a built-in's name and whose alias is       *)
(* another built-in's alias                                                *)
cmd_shadow == WithAction(CommandNewWithAlias(s_exit, s_h), "qwert")

(* what add_subcommand is given *)
PlainCmds == {cmd_test1, cmd_mismatch, cmd_missing, cmd_cfg, cmd_shadow}

(* what add_subcommand_with_userdata is given: the command and Box::new(100usize) *)
DataCmds == {cmd_userdata}
UserValues == {[type |-> "usize", value |-> 100]}

(* the keys get_handler is asked for *)
HandlerKeys == {s_userdata, s_test1}

(* tokens joined by single spaces *)
RECURSIVE Join(_)
Join(ts) ==
    IF ts = <<>> THEN <<>>
    ELSE IF Len(ts) = 1 THEN ts[1]
    ELSE ts[1] \o <<" ">> \o Join(Tail(ts))

TokenSeqs ==
    { <<s_tree>>, <<s_mode, s_vi>>, <<s_mode, s_x>>, <<s_log, s_info>>,
      <<s_log, s_x, s_y>>, <<s_l>>, <<s_help>>, <<s_h, s_cfg, s_show>>,
      <<s_help, s_cfg, s_x>>, <<s_exit>>, <<s_v>>,
      <<s_test1>>, <<s_t1>>, <<s_mismatch, s_x, s_y>>,
      <<s_mm>>, <<s_missing>>, <<s_userdata>>, <<s_cfg>>, <<s_cfg, s_show>>,
      <<s_cfg, s_s, s_x>>, <<s_cfg, s_set>>, <<s_cfg, s_x>>,
      <<s_x>>, <<s_h>> }

(* the lines readline gives: the token sequences above, and lines with     *)
(* no token or with more white space than one space between tokens         *)
Lines ==
    { Join(ts) : ts \in TokenSeqs }
    \cup { <<>>, <<"\t", " ">>,
           <<" ", " ">> \o s_t1 \o <<"\t", " ">> \o s_x \o <<" ">> }

(* the answers to "Do you realy want to quit? [y/N]" *)
Answers == { s_y, s_Y, s_n, s_empty, s_yes }

----------------------------------------------------------------------------
(* The program.                                                            *)

Ctx == [app |-> app, helper |-> helper, level |-> max_level, mode |-> edit_mode]

Init ==
    /\ app = AppNew
    /\ helper = None
    /\ edit_mode = "Emacs"
    /\ max_level = "OFF"
    /\ pc = "build"
    /\ last = [op |-> "new"]

(* the number of commands added to the built-in ones *)
UserCmds == Len(app.tree.subcommands) - Len(BuiltinCmds.subcommands)

(* add_subcommand leaving an entry in the registry *)
add_subcommand_registers(self, subcmd) ==
    [self EXCEPT
        !.handlers = [k \in DOMAIN self.handlers \cup {subcmd.name} |->
                        IF k = subcmd.name THEN [type |-> "unit", value |-> 0]
                        ELSE self.handlers[k]],
        !.tree.subcommands = Append(@, subcmd)]

(* App::add_subcommand *)
add_subcommand(self, subcmd) ==
    [self EXCEPT !.tree.subcommands = Append(@, subcmd)]

(* App::add_subcommand_with_userdata *)
add_subcommand_with_userdata(self, subcmd, value) ==
    [self EXCEPT
        !.handlers = [k \in DOMAIN self.handlers \cup {subcmd.name} |->
                        IF k = subcmd.name THEN value ELSE self.handlers[k]],
        !.tree.subcommands = Append(@, subcmd)]

AddSubcommand ==
    /\ pc = "build"
    /\ UserCmds < MaxCmds
    /\ \E subcmd \in PlainCmds :
        /\ app' = add_subcommand(app, subcmd)
        /\ last' = [op |-> "add_subcommand", name |-> subcmd.name]
    /\ UNCHANGED <<helper, edit_mode, max_level, pc>>

AddSubcommandWithUserdata ==
    /\ pc = "build"
    /\ UserCmds < MaxCmds
    /\ \E subcmd \in DataCmds, value \in UserValues :
        /\ app' = add_subcommand_with_userdata(app, subcmd, value)
        /\ last' = [op |-> "add_subcommand_with_userdata", name |-> subcmd.name]
    /\ UNCHANGED <<helper, edit_mode, max_level, pc>>

(* a call of App::get_handler by the application, before it runs *)
GetHandler ==
    /\ pc = "build"
    /\ \E key \in HandlerKeys :
        last' = [op |-> "get_handler", key |-> key, ret |-> get_handler(app, key)]
    /\ UNCHANGED <<app, helper, edit_mode, max_level, pc>>

(* App::run up to its loop: the completer is built from the tree as it is. *)
(* The history file and the editor's history are the line editor's own.    *)
StartRun ==
    /\ pc = "build"
    /\ helper' = Some(PrefixCompleterNew(app.tree))
    /\ pc' = "loop"
    /\ last' = [op |-> "run"]
    /\ UNCHANGED <<app, edit_mode, max_level>>

(* App::_run *)
_run(ctx, args) == run_sub(ctx.app.tree, ctx, args, <<>>)

(* after the loop: save_history("history.txt").unwrap() either returns or  *)
(* panics, as the file system decides                                      *)
AfterLoop == {"done", "save_panic"}

(* one turn of the loop whose readline gave Ok(line) *)
ReadLine ==
    /\ pc = "loop"
    /\ \E line \in Lines :
        \E args \in {SplitAsciiWhitespace(line)} :
            IF args # <<>>
            THEN \E r \in {_run(Ctx, args)} :
                     /\ max_level' = r.level
                     /\ edit_mode' = r.mode
                     /\ last' = [op |-> "dispatch", line |-> line, args |-> args,
                                 ret |-> r.ret, out |-> r.out, printed |-> r.printed,
                                 invoked |-> r.invoked, target |-> r.target,
                                 leftover |-> r.leftover]
                     /\ IF r.ret = OkExit THEN pc' \in AfterLoop
                        ELSE IF r.ret[1] = "Panic" THEN pc' = "action_panic"
                        ELSE pc' = "loop"
            ELSE /\ last' = [op |-> "skip", line |-> line]
                 /\ UNCHANGED <<max_level, edit_mode, pc>>
    /\ UNCHANGED <<app, helper>>

(* a turn whose readline gave Err (end of input, interrupt): the error is  *)
(* printed and the confirmation is asked for                               *)
ReadError ==
    /\ pc = "loop"
    /\ pc' = "confirm"
    /\ last' = [op |-> "interrupt"]
    /\ UNCHANGED <<app, helper, edit_mode, max_level>>

(* the default answer taken to be yes *)
QuitsUnlessNo(l) == l # s_n

(* match l.as_str() { "Y" | "y" => break, _ => "".to_string() } *)
Quits(l) == l = s_Y \/ l = s_y

(* the rest of that turn: the answer read (an Err counts as "n"); "Y" and  *)
(* "y" break, anything else makes the line "", which has no token          *)
Confirm ==
    /\ pc = "confirm"
    /\ \E readline \in {Some(a) : a \in Answers} \cup {None} :
        LET l == IF readline # None THEN readline[1] ELSE s_n
        IN  /\ last' = [op |-> "confirm", answer |-> readline, l |-> l]
            /\ IF Quits(l)
               THEN pc' \in AfterLoop
               ELSE /\ SplitAsciiWhitespace(<<>>) = <<>>
                    /\ pc' = "loop"
    /\ UNCHANGED <<app, helper, edit_mode, max_level>>

Next ==
    \/ AddSubcommand
    \/ AddSubcommandWithUserdata
    \/ GetHandler
    \/ StartRun
    \/ ReadLine
    \/ ReadError
    \/ Confirm

Spec == Init /\ [][Next]_vars

----------------------------------------------------------------------------
(* The completer on its own: PrefixCompleter::new is given a command tree  *)
(* (app.tree holds it) and complete_cmd is asked about a line and a        *)
(* cursor position in it.                                                  *)

(* Command::new("").subcommand(Command::new("log").subcommand(Command::new("level"))) *)
tree_log_level ==
    WithSubcommand(CommandNew(s_empty),
        WithSubcommand(CommandNew(s_log), CommandNew(s_level)))

(* Command::new("l").subcommand(Command::new("level")): a command whose    *)
(* name is the alias of the built-in log                                   *)
cmd_l == WithSubcommand(CommandNew(s_l), CommandNew(s_level))

(* the root of the application with the commands given added in turn *)
RECURSIVE RootWith(_, _)
RootWith(root, cmds) ==
    IF cmds = <<>> THEN root
    ELSE RootWith(WithSubcommand(root, Head(cmds)), Tail(cmds))

(* the trees the completer is built from: the one above, the built-in      *)
(* commands alone, the tree of examples/xcli_simple.rs, a tree with a      *)
(* category and a repeated name, and a tree of distinct names with a       *)
(* category and cmd_l                                                      *)
CmdTrees ==
    { tree_log_level,
      BuiltinCmds,
      RootWith(BuiltinCmds,
               <<cmd_test1, cmd_mismatch, cmd_bad, cmd_missing, cmd_userdata>>),
      RootWith(BuiltinCmds, <<cmd_cfg, cmd_shadow>>),
      RootWith(BuiltinCmds, <<cmd_cfg, cmd_l>>) }

(* the lines being edited; the cursor is anywhere in them *)
CompLines ==
    { s_log \o <<" ">> \o s_level,
      s_log \o <<" ">> \o s_level \o <<" ">>,
      <<" ">> \o s_mismatch,
      s_test1 \o <<" ">>,
      s_cfg \o <<" ", " ">> \o s_show \o <<" ">> \o s_x,
      s_l \o <<" ">>,
      s_t1 \o <<" ">>,
      s_cfg \o <<" ">> \o s_show \o <<" ">>,
      s_cfg \o <<" ">> \o s_s \o <<" ">>,
      <<" ", "\t">>,
      s_x \o s_y }

InitC ==
    /\ \E t \in CmdTrees : app = [AppNew EXCEPT !.tree = t]
    /\ helper = None
    /\ edit_mode = "Emacs"
    /\ max_level = "OFF"
    /\ pc = "tree"
    /\ last = [op |-> "new"]

NewCompleter ==
    /\ pc = "tree"
    /\ helper' = Some(PrefixCompleterNew(app.tree))
    /\ pc' = "completer"
    /\ last' = [op |-> "PrefixCompleter::new"]
    /\ UNCHANGED <<app, edit_mode, max_level>>

Complete ==
    /\ pc = "completer"
    /\ \E line \in CompLines :
        \E pos \in 0..Len(line) :
            \E c \in {complete_cmd(helper[1], line, pos)} :
                last' = [op |-> "complete", line |-> line, pos |-> pos,
                         ret |-> c.ret, levels |-> c.levels]
    /\ UNCHANGED <<app, helper, edit_mode, max_level, pc>>

NextC ==
    \/ NewCompleter
    \/ Complete

SpecC == InitC /\ [][NextC]_vars

----------------------------------------------------------------------------
(* The properties.  They speak of the last dispatch (last.op = "dispatch": *)
(* a line whose tokens went through run_sub from the root) in their own    *)
(* terms: the test "name or alias" and the walk are restated here and owe  *)
(* nothing to Matches, FirstMatch or run_sub.                              *)

Dispatched == last.op = "dispatch"

(* token is the name of c or its alias *)
NameOrAlias(c, token) == c.name = token \/ c.alias = <<token>>

(* the children of the node at path p *)
Kids(p) == NodeAt(app.tree, p).subcommands

(* p is the path from the root that the tokens T select: each step takes   *)
(* the earliest child the next token matches, and the path ends where the  *)
(* tokens are exhausted or no child matches the next one                   *)
IsWalk(T, p) ==
    /\ Len(p) <= Len(T)
    /\ \A i \in 1..Len(p) :
        LET kids == Kids(SubSeq(p, 1, i - 1))
        IN  /\ p[i] \in 1..Len(kids)
            /\ NameOrAlias(kids[p[i]], T[i])
            /\ \A j \in 1..(p[i] - 1) : ~NameOrAlias(kids[j], T[i])
    /\ \/ Len(p) = Len(T)
       \/ \A j \in 1..Len(Kids(p)) : ~NameOrAlias(Kids(p)[j], T[Len(p) + 1])

(* the tokens of the last dispatch with the k-th replaced by token *)
WithToken(k, token) == [last.args EXCEPT ![k] = token]

(* a dispatch of the tokens T from the root ends at the node and with the  *)
(* leftover tokens the last dispatch ended with                            *)
SameDispatch(T) ==
    LET r == _run(Ctx, T)
    IN  r.target = last.target /\ r.leftover = last.leftover

(* the k-th token of the last dispatch was consumed as the alias of the    *)
(* child c of the node reached before it                                   *)
AliasOf(k, c) == c.alias # None /\ c.alias[1] = last.args[k]

(* no sibling before the i-th child of the node at p matches the token *)
Unshadowed(p, i, token) == \A j \in 1..(i - 1) : ~NameOrAlias(Kids(p)[j], token)

(* run_sub invokes at most one action, that of the node the walk selects *)
OneActionAtWalk ==
    Dispatched =>
        /\ Len(last.invoked) <= 1
        /\ IsWalk(last.args, last.target)
        /\ \A n \in 1..Len(last.invoked) : last.invoked[n].path = last.target

(* C1 as stated: at most one action is invoked, at the node the walk       *)
(* selects, and a token equal to a node's alias selects the same node,     *)
(* with the same leftover tokens, as the token equal to that node's name.  *)
C1_AsStated ==
    /\ OneActionAtWalk
    /\ Dispatched =>
        \A k \in 1..Len(last.target) :
            LET p == SubSeq(last.target, 1, k - 1)
            IN  \A i \in 1..Len(Kids(p)) :
                    AliasOf(k, Kids(p)[i]) =>
                        SameDispatch(WithToken(k, Kids(p)[i].name))

(* C1, amended: at most one action is invoked, at the node the walk        *)
(* selects, and a token equal to a node's alias selects the same node,     *)
(* with the same leftover tokens, as the token equal to that node's name,  *)
(* provided no earlier sibling matches the alias or the name.              *)
C1_WalkAndAlias ==
    /\ OneActionAtWalk
    /\ Dispatched =>
        \A k \in 1..Len(last.target) :
            LET p == SubSeq(last.target, 1, k - 1)
            IN  \A i \in 1..Len(Kids(p)) :
                    ( /\ AliasOf(k, Kids(p)[i])
                      /\ Unshadowed(p, i, Kids(p)[i].alias[1])
                      /\ Unshadowed(p, i, Kids(p)[i].name) ) =>
                        /\ last.target[k] = i
                        /\ SameDispatch(WithToken(k, Kids(p)[i].name))

(* the tokens ["t1"] were dispatched to the action of test1, as ["test1"] is *)
C1_Witness ==
    /\ Dispatched
    /\ last.args = <<s_t1>>
    /\ Len(last.invoked) = 1
    /\ NodeAt(app.tree, last.target).name = s_test1
    /\ SameDispatch(<<s_test1>>)

(* the application has just built a tree: every tree it can build is the   *)
(* tree of such a state                                                    *)
TreeBuilt == last.op \in {"new", "add_subcommand", "add_subcommand_with_userdata"}

(* the token sequences locate_subcommand is asked about *)
LocateArgs == TokenSeqs \cup {<<>>}

(* every path of child indexes from node down *)
RECURSIVE PathsFrom(_)
PathsFrom(node) ==
    {<<>>} \cup UNION { { <<i>> \o q : q \in PathsFrom(node.subcommands[i]) } :
                        i \in 1..Len(node.subcommands) }

(* the path the tokens T select from the root *)
TheWalk(T) == CHOOSE p \in PathsFrom(app.tree) : IsWalk(T, p)

(* the last dispatch went to the built-in help command with tokens left *)
HelpAsked ==
    /\ Dispatched
    /\ last.leftover # <<>>
    /\ Len(last.target) = 1
    /\ Kids(<<>>)[last.target[1]].name = s_help

(* C2: locate_subcommand(R, T) is Some(node) exactly when every token of T *)
(* in turn matches a child at its level, the node being the one the walk   *)
(* ends at; it is Some(R) for no tokens and None, not the node reached so  *)
(* far, when a token matches no child; and the help command, which uses    *)
(* it, invokes no action and prints the help of the node found or that     *)
(* none is.                                                                *)
C2_Locate ==
    /\ TreeBuilt =>
        \A T \in LocateArgs :
            LET found == locate_subcommand(app.tree, T, <<>>)
                walk == TheWalk(T)
            IN  /\ IsWalk(T, walk)
                /\ T = <<>> => found = Some(<<>>)
                /\ Len(walk) = Len(T) => found = Some(walk)
                /\ Len(walk) < Len(T) => found = None
    /\ HelpAsked =>
        LET walk == TheWalk(last.leftover)
        IN  /\ last.invoked = << [path |-> last.target, args |-> last.leftover] >>
            /\ last.ret = OkOk
            /\ Len(walk) = Len(last.leftover) =>
                /\ Len(last.out) = 1
                /\ last.out[1][1] = "Command"
                /\ last.out[1][2] = get_description(NodeAt(app.tree, walk))
            /\ Len(walk) < Len(last.leftover) =>
                last.out = << <<"Unrecognized command", last.leftover>> >>

(* help was asked about "cfg show", located it two levels down and printed *)
(* its help                                                                *)
C2_Witness ==
    /\ HelpAsked
    /\ last.leftover = <<s_cfg, s_show>>
    /\ Len(TheWalk(last.leftover)) = 2
    /\ last.out[1][1] = "Command"
    /\ last.out[1][2] = get_description(WithAction(CommandNewWithAlias(s_show, s_s), "qwert"))

(* C3: the action of the node dispatched to is given exactly the tokens     *)
(* that no child match consumed, in their order: all the tokens from the   *)
(* first one that matches no child of that node on, and none when every    *)
(* token was consumed.                                                     *)
C3_Leftover ==
    Dispatched =>
        LET consumed == Len(last.target)
            rest == [i \in 1..(Len(last.args) - consumed) |-> last.args[consumed + i]]
        IN  /\ consumed <= Len(last.args)
            /\ last.leftover = rest
            /\ \A n \in 1..Len(last.invoked) : last.invoked[n].args = rest
            /\ rest # <<>> =>
                \A j \in 1..Len(Kids(last.target)) :
                    ~NameOrAlias(Kids(last.target)[j], rest[1])
            /\ consumed = Len(last.args) => last.leftover = <<>>

(* mismatch was given the two tokens after its name, neither one consumed *)
C3_Witness ==
    /\ Dispatched
    /\ last.args = <<s_mismatch, s_x, s_y>>
    /\ Len(last.invoked) = 1
    /\ last.invoked[1].args = <<s_x, s_y>>
    /\ NodeAt(app.tree, last.target).name = s_mismatch

(* what the resolver itself prints for the result ret of the action of cmd *)
ResolverPrints(ret, cmd) ==
    IF ret[1] # "Err" THEN <<>>
    ELSE IF ret[2][1] = "Other" THEN << <<"println", <<ret[2][2]>> >> >>
    ELSE << <<"println_nl", Display(ret[2])>>,
            <<"Usage", IF cmd.usage = None THEN cmd.name ELSE cmd.usage[1]>> >>

(* C4: when run_sub invokes an action, what run_sub returns is the         *)
(* action's result (["mismatch","x","y"] gives MismatchArgument(10,2));    *)
(* the resolver prints the error message and then the command's usage line *)
(* for every error kind but Other, the message alone for Other, and        *)
(* nothing on an Ok result.  (A step property: the action is run on the    *)
(* state before the dispatch.)                                             *)
C4_ResultAndUsage ==
    [][ (last'.op = "dispatch" /\ last'.invoked # <<>>) =>
            LET cmd == NodeAt(app.tree, last'.target)
                r == RunAction(cmd.action[1], Ctx, last'.leftover)
            IN  /\ last'.ret = r.ret
                /\ last'.printed = ResolverPrints(r.ret, cmd)
                /\ last'.out = r.out \o last'.printed
                /\ (cmd.action[1] = "mismatch" /\ Len(last'.leftover) = 2) =>
                    /\ last'.ret = Err(MismatchArgument(10, 2))
                    /\ last'.printed =
                        << <<"println_nl",
                             <<"Mismatched argument(s): wanted: ", 10, ", actual: ", 2>> >>,
                           <<"Usage", s_mismatch>> >>
      ]_vars

(* ["mismatch","x","y"] returned MismatchArgument(10,2) and two lines were *)
(* printed, the message and the usage                                      *)
C4_Witness ==
    /\ Dispatched
    /\ last.args = <<s_mismatch, s_x, s_y>>
    /\ last.ret = Err(MismatchArgument(10, 2))
    /\ Len(last.printed) = 2

(* an action failed with Other and the resolver printed its message alone *)
C4_WitnessOther ==
    /\ Dispatched
    /\ last.invoked # <<>>
    /\ last.ret = Err(Other(s_x))
    /\ last.out = << <<"println", <<s_x>> >> >>

(* C5: when the node dispatched to has no action, no action is invoked and *)
(* the result is Ok(CmdExeCode::Ok); with no token left the node's own     *)
(* help is printed and then one summary line per child in child order,     *)
(* with tokens left the unknown-command message for those tokens.          *)
C5_NoAction ==
    (Dispatched /\ NodeAt(app.tree, last.target).action = None) =>
        LET node == NodeAt(app.tree, last.target)
        IN  /\ last.invoked = <<>>
            /\ last.ret = OkOk
            /\ last.leftover = <<>> =>
                /\ Len(last.out) = 1 + Len(node.subcommands)
                /\ last.out[1] = <<"Command", get_description(node),
                                   UsageOrName(node), AboutOrEmpty(node)>>
                /\ \A i \in 1..Len(node.subcommands) :
                    last.out[1 + i] =
                        <<"Summary", get_description(node.subcommands[i]),
                          UsageOrName(node.subcommands[i])>>
            /\ last.leftover # <<>> =>
                last.out = << <<"Unknown command or arguments", last.leftover>> >>

(* ["cfg"] reached the category cfg with no token left: its help and the   *)
(* summaries of its two children were printed                              *)
C5_Witness ==
    /\ Dispatched
    /\ last.args = <<s_cfg>>
    /\ NodeAt(app.tree, last.target).name = s_cfg
    /\ NodeAt(app.tree, last.target).action = None
    /\ Len(last.out) = 3
    /\ last.ret = OkOk

(* the number of built-in commands, which come first under the root *)
Builtins == Len(BuiltinCmds.subcommands)

(* C6: where two siblings match the same token, resolution descends into   *)
(* the one registered earlier, in run_sub and in locate_subcommand alike   *)
(* ("mm" goes to mismatch when it was added before missing); and a token   *)
(* that a built-in command matches is never dispatched to a user command   *)
(* that shares it.                                                         *)
C6_EarlierWins ==
    /\ Dispatched =>
        /\ \A k \in 1..Len(last.target) :
            \A j \in 1..Len(Kids(SubSeq(last.target, 1, k - 1))) :
                NameOrAlias(Kids(SubSeq(last.target, 1, k - 1))[j], last.args[k])
                    => last.target[k] <= j
        /\ \A i \in 1..Len(Kids(<<>>)) :
            ( /\ last.args[1] = s_mm
              /\ Kids(<<>>)[i] = cmd_mismatch
              /\ \A h \in 1..(i - 1) : Kids(<<>>)[h] # cmd_missing )
                => (last.target # <<>> /\ Kids(<<>>)[last.target[1]] = cmd_mismatch)
        /\ (\E b \in 1..Builtins : NameOrAlias(Kids(<<>>)[b], last.args[1]))
                => (last.target # <<>> /\ last.target[1] <= Builtins)
    /\ TreeBuilt =>
        \A T \in LocateArgs :
            LET found == locate_subcommand(app.tree, T, <<>>)
            IN  found # None =>
                    \A k \in 1..Len(found[1]) :
                        \A j \in 1..Len(Kids(SubSeq(found[1], 1, k - 1))) :
                            NameOrAlias(Kids(SubSeq(found[1], 1, k - 1))[j], T[k])
                                => found[1][k] <= j

(* "mm" was dispatched with mismatch and missing both registered, and went *)
(* to mismatch, the earlier of the two                                     *)
C6_Witness ==
    /\ Dispatched
    /\ last.args = <<s_mm>>
    /\ \E i, j \in 1..Len(Kids(<<>>)) :
        /\ i < j
        /\ Kids(<<>>)[i] = cmd_mismatch
        /\ Kids(<<>>)[j] = cmd_missing
        /\ last.target = <<i>>

(* the loop of App::run has ended *)
LoopEnded == pc \notin {"build", "loop", "confirm"}

(* the last event is one of the two that end the loop *)
EndingEvent ==
    \/ last.op = "dispatch" /\ last.ret = OkExit
    \/ last.op = "confirm" /\ last.answer \in {Some(s_y), Some(s_Y)}

(* every character of the line is ASCII white space *)
Blank(line) == \A i \in 1..Len(line) : line[i] \in {" ", "\t", "\n", "\f", "\r"}

(* C7: the loop of App::run ends only after a dispatch that returned       *)
(* Ok(Exit) or after an interrupt whose confirmation was answered exactly  *)
(* "y" or "Y"; after any other event (a dispatch returning Ok(Ok) or an    *)
(* Err, an unknown command, a blank line, which is not dispatched, any     *)
(* other answer) it reads the next line.                                   *)
C7_LoopEnds ==
    /\ LoopEnded <=> (pc # "build" /\ EndingEvent)
    /\ (last.op \in {"dispatch", "skip", "confirm"} /\ ~EndingEvent) => pc = "loop"
    /\ last.op = "interrupt" => pc = "confirm"
    /\ last.op = "skip" => Blank(last.line)
    /\ last.op = "dispatch" => ~Blank(last.line)

(* the confirmation was answered with nothing and the loop reads on *)
C7_Witness ==
    /\ last.op = "confirm"
    /\ last.answer = Some(s_empty)
    /\ pc = "loop"

(* the confirmation was answered "Y" and the loop has ended *)
C7_WitnessQuit ==
    /\ last.op = "confirm"
    /\ last.answer = Some(s_Y)
    /\ LoopEnded

----------------------------------------------------------------------------
(* The properties of completion, of the specification SpecC.               *)

Completed == last.op = "complete"

(* the line up to the cursor without its leading white space *)
Scan ==
    LET text == [i \in 1..last.pos |-> last.line[i]]
        blanks == CHOOSE n \in 0..Len(text) :
                    /\ \A i \in 1..n : text[i] \in {" ", "\t", "\n", "\f", "\r"}
                    /\ n < Len(text) => text[n + 1] \notin {" ", "\t", "\n", "\f", "\r"}
    IN  [i \in 1..(Len(text) - blanks) |-> text[blanks + i]]

IsPrefix(p, t) == Len(p) <= Len(t) /\ \A i \in 1..Len(p) : p[i] = t[i]

(* the children of the root, by index, whose names begin with Scan *)
Sharers == {i \in 1..Len(Kids(<<>>)) : IsPrefix(Scan, Kids(<<>>)[i].name)}

(* two or more sibling names begin with the non-empty text scanned *)
Ambiguous == Completed /\ Scan # <<>> /\ Cardinality(Sharers) >= 2

(* for each of them in child order, what is left to type of its name and   *)
(* the space after it                                                      *)
Remainders ==
    LET Left(i) ==
            LET full == Kids(<<>>)[i].name \o <<" ">>
            IN  [n \in 1..(Len(full) - Len(Scan)) |-> full[Len(Scan) + n]]
        RECURSIVE Collect(_)
        Collect(i) ==
            IF i > Len(Kids(<<>>)) THEN <<>>
            ELSE (IF i \in Sharers THEN <<Left(i)>> ELSE <<>>) \o Collect(i + 1)
    IN  Collect(1)

(* all of them are returned as partial matches, and no child is entered *)
AllPartialNoDescent ==
    /\ last.ret[2] = Remainders
    /\ Len(last.levels) = 1
    /\ Len(last.levels[1].hits) = Cardinality(Sharers)
    /\ \A n \in 1..Len(last.levels[1].hits) :
        /\ last.levels[1].hits[n][1] \in Sharers
        /\ last.levels[1].hits[n][2] = "partial"

(* C8 as stated: when two or more sibling names begin with the non-empty   *)
(* text scanned, all of them are returned as partial-match fragments in    *)
(* child order, no child is entered, and the offset returned is the length *)
(* of the text scanned.                                                    *)
C8_AsStated ==
    Ambiguous => (AllPartialNoDescent /\ last.ret[1] = Len(Scan))

(* C8, amended: when two or more sibling names begin with the non-empty    *)
(* text scanned, all of them are returned as partial-match fragments in    *)
(* child order and no child is entered; the offset returned is the cursor  *)
(* position, which is the length of the text scanned plus the leading      *)
(* white space trimmed off it (that length is the offset the loop          *)
(* records, which is not returned).                                        *)
C8_Ambiguity ==
    Ambiguous =>
        /\ AllPartialNoDescent
        /\ last.ret[1] = last.pos
        /\ last.levels[1].offset = Len(Scan)

(* " mis" was completed in the example's tree: what is left of mismatch    *)
(* and of missing came back, at the cursor, one past the text scanned      *)
C8_Witness ==
    /\ Ambiguous
    /\ last.line = <<" ">> \o s_mismatch
    /\ last.pos = 4
    /\ last.ret = <<4, << <<"m","a","t","c","h"," ">>, <<"s","i","n","g"," ">> >> >>
    /\ Len(Scan) = 3

(* "log level", cursor at the end, was completed in the tree               *)
(* root -> log -> level                                                    *)
LogLevelAsked ==
    /\ Completed
    /\ app.tree = tree_log_level
    /\ last.line = s_log \o <<" ">> \o s_level
    /\ last.pos = Len(last.line)

(* the completion went from the root into log and gave one candidate, " " *)
DescendsToOneSpace ==
    /\ last.ret[2] = << <<" ">> >>
    /\ Len(last.levels) = 2
    /\ last.levels[1].hits = << <<1, "full">> >>
    /\ last.levels[1].go_next
    /\ last.levels[2].scan = s_level

(* C9 as stated: the completion descends from the root into log and gives  *)
(* exactly one candidate, the single space, recorded at the second level   *)
(* as a full match of "level" of exact length.                             *)
C9_AsStated ==
    LogLevelAsked =>
        /\ DescendsToOneSpace
        /\ last.levels[2].hits = << <<1, "full exact">> >>

(* C9, amended: the completion descends from the root into log and gives   *)
(* exactly one candidate, the single space, recorded at the second level   *)
(* as a partial match of "level ": the space is what is left to type of    *)
(* the space-suffixed name, and no full match is recorded there.           *)
C9_LogLevel ==
    LogLevelAsked =>
        /\ DescendsToOneSpace
        /\ last.levels[2].hits = << <<1, "partial">> >>
        /\ ~last.levels[2].go_next
        /\ last.levels[2].offset = Len(s_level)

(* that completion happened and returned the cursor position and " " *)
C9_Witness ==
    /\ LogLevelAsked
    /\ last.ret = <<9, << <<" ">> >> >>

----------------------------------------------------------------------------
(* The property of the registry, of the specification Spec.                *)

(* C10: the registry gets an entry only by add_subcommand_with_userdata,   *)
(* under the name of the command added; add_subcommand appends the command *)
(* to the root's children and leaves the registry as it is; get_handler    *)
(* gives the value registered under the name when there is one and the     *)
(* error MissingHandler(name) otherwise, and changes neither the registry  *)
(* nor the tree.                                                           *)
C10_Registry ==
    [][ /\ app'.handlers # app.handlers =>
            /\ last'.op = "add_subcommand_with_userdata"
            /\ DOMAIN app'.handlers = DOMAIN app.handlers \cup {last'.name}
            /\ app'.handlers[last'.name] \in UserValues
            /\ \A k \in DOMAIN app.handlers \ {last'.name} :
                    app'.handlers[k] = app.handlers[k]
        /\ last'.op = "add_subcommand" =>
            /\ app'.handlers = app.handlers
            /\ Len(app'.tree.subcommands) = Len(app.tree.subcommands) + 1
            /\ \A i \in 1..Len(app.tree.subcommands) :
                    app'.tree.subcommands[i] = app.tree.subcommands[i]
            /\ app'.tree.subcommands[Len(app'.tree.subcommands)].name = last'.name
        /\ last'.op = "get_handler" =>
            /\ app' = app
            /\ last'.key \in DOMAIN app.handlers =>
                    last'.ret = <<"Ok", app.handlers[last'.key]>>
            /\ last'.key \notin DOMAIN app.handlers =>
                    last'.ret = <<"Err", <<"MissingHandler", last'.key>> >>
        /\ last'.op = "dispatch" => app' = app
      ]_vars

(* test1 was added with add_subcommand and userdata with its value: asked  *)
(* for test1, get_handler gave MissingHandler("test1")                     *)
C10_Witness ==
    /\ last.op = "get_handler"
    /\ last.key = s_test1
    /\ last.ret = Err(MissingHandler(s_test1))
    /\ \E i \in 1..Len(Kids(<<>>)) : Kids(<<>>)[i].name = s_test1
    /\ DOMAIN app.handlers = {s_userdata}

----------------------------------------------------------------------------
(* Completion after a whole path of names, of the specification SpecC.     *)

(* the text before the cursor *)
Typed == [i \in 1..last.pos |-> last.line[i]]

WhiteChar(c) == c \in {" ", "\t", "\n", "\f", "\r"}

(* the names of the nodes along the path p from the root *)
NamesAlong(p) == [j \in 1..Len(p) |-> NodeAt(app.tree, SubSeq(p, 1, j)).name]

(* the names given, each followed by one space *)
RECURSIVE Spaced(_)
Spaced(names) ==
    IF names = <<>> THEN <<>>
    ELSE Head(names) \o <<" ">> \o Spaced(Tail(names))

(* the space-suffixed names of the children of c, in child order *)
ChildNames(c) == [i \in 1..Len(c.subcommands) |-> c.subcommands[i].name \o <<" ">>]

(* all over the tree, the names of siblings are distinct and hold no       *)
(* white space                                                             *)
PlainNames ==
    \A p \in PathsFrom(app.tree) :
        /\ \A i, j \in 1..Len(Kids(p)) :
            Kids(p)[i].name = Kids(p)[j].name => i = j
        /\ \A i \in 1..Len(Kids(p)) :
            \A n \in 1..Len(Kids(p)[i].name) : ~WhiteChar(Kids(p)[i].name[n])

(* no node below the root has the empty name *)
NamesNotEmpty ==
    \A p \in PathsFrom(app.tree) : p # <<>> => NodeAt(app.tree, p).name # <<>>

(* the text before the cursor is the line of the path p: its names each    *)
(* followed by a space, and any run of white space for the root            *)
LineOf(p) ==
    IF p = <<>> THEN \A i \in 1..Len(Typed) : WhiteChar(Typed[i])
    ELSE Typed = Spaced(NamesAlong(p))

(* C11 as the claim states it: in a tree of distinct names without white   *)
(* space, for a path of names that locate_subcommand resolves to a node N, *)
(* completing the line of the names descends once per name and returns     *)
(* the space-suffixed names of the children of N in child order.           *)
C11_AsStated ==
    (Completed /\ PlainNames) =>
        \A p \in PathsFrom(app.tree) :
            LineOf(p) =>
                \A n \in {locate_subcommand(app.tree, NamesAlong(p), <<>>)} :
                    n # None =>
                        /\ last.ret[2] = ChildNames(NodeAt(app.tree, n[1]))
                        /\ Len(last.levels) = Len(p) + 1

(* C11: in a tree whose sibling names are distinct, non-empty and without  *)
(* white space, for a path of names t1..tk that locate_subcommand resolves *)
(* to the node N so named (no ti is the alias of an earlier sibling),      *)
(* completing "t1 .. tk " with the cursor at its end (any white space when *)
(* k = 0) takes one full match per name, the last one exact and recorded   *)
(* as a single space, descends once per name, and returns the              *)
(* space-suffixed names of the children of N in child order: none when N   *)
(* has no child, and never the single space.                               *)
C11_PathOfNames ==
    (Completed /\ PlainNames /\ NamesNotEmpty) =>
        \A p \in PathsFrom(app.tree) :
            (LineOf(p) /\ locate_subcommand(app.tree, NamesAlong(p), <<>>) = Some(p)) =>
                /\ last.ret = <<last.pos, ChildNames(NodeAt(app.tree, p))>>
                /\ Len(last.levels) = Len(p) + 1
                /\ \A i \in 1..Len(p) :
                    last.levels[i].hits =
                        << <<p[i], IF i = Len(p) THEN "full exact" ELSE "full">> >>
                /\ p # <<>> => last.levels[Len(p)].new_line = << <<" ">> >>
                /\ \A i \in 1..Len(last.ret[2]) : last.ret[2][i] # <<" ">>
                /\ Kids(p) = <<>> => last.ret[2] = <<>>

(* a line of one name or more was completed and the node named has         *)
(* children                                                                *)
C11_Witness ==
    /\ Completed
    /\ PlainNames
    /\ NamesNotEmpty
    /\ \E p \in PathsFrom(app.tree) :
        /\ p # <<>>
        /\ LineOf(p)
        /\ locate_subcommand(app.tree, NamesAlong(p), <<>>) = Some(p)
        /\ Kids(p) # <<>>
        /\ last.ret[2] = ChildNames(NodeAt(app.tree, p))

----------------------------------------------------------------------------
(* Completion knows names only, of the specification SpecC.                *)

(* the prefix-tree node mirrors the command: it holds the name followed by *)
(* a space and nothing of the alias, and its children mirror the           *)
(* command's children in their order                                       *)
RECURSIVE SameShape(_, _)
SameShape(cmd, node) ==
    /\ DOMAIN node = {"name", "children"}
    /\ node.name = cmd.name \o <<" ">>
    /\ Len(node.children) = Len(cmd.subcommands)
    /\ \A i \in 1..Len(cmd.subcommands) :
        SameShape(cmd.subcommands[i], node.children[i])

(* the path to the parent of the node at p *)
Parent(p) == SubSeq(p, 1, Len(p) - 1)

(* the line that names the ancestors of the node at p and ends with what   *)
(* is given for the node itself                                            *)
LineTo(p, own) == Spaced(NamesAlong(Parent(p))) \o own

(* the text before the cursor is the line to p by its alias, the alias     *)
(* followed by a space and anything                                        *)
AliasThenSpace(p) ==
    IsPrefix(LineTo(p, NodeAt(app.tree, p).alias[1]) \o <<" ">>, Typed)

(* what follows the alias of the node at p in the text before the cursor *)
AfterAlias(p) ==
    SubSeq(Typed, Len(LineTo(p, NodeAt(app.tree, p).alias[1])) + 1, Len(Typed))

(* the node at p has an alias that locate_subcommand takes to it, after    *)
(* the names of its ancestors                                              *)
ResolvedByAlias(p) ==
    /\ p # <<>>
    /\ NodeAt(app.tree, p).alias # <<>>
    /\ locate_subcommand(app.tree,
            Append(NamesAlong(Parent(p)), NodeAt(app.tree, p).alias[1]), <<>>) = Some(p)

(* completing the text before the cursor finds nothing at the level of the *)
(* node at p and does not go below it, while the same text with the name   *)
(* of the node for its alias matches the node in full and goes below it    *)
AliasDeadNameAlive(p) ==
    /\ last.ret[2] = <<>>
    /\ Len(last.levels) = Len(p)
    /\ last.levels[Len(p)].hits = <<>>
    /\ \A c \in {complete_cmd(helper[1],
                    LineTo(p, NodeAt(app.tree, p).name) \o AfterAlias(p),
                    Len(LineTo(p, NodeAt(app.tree, p).name) \o AfterAlias(p)))} :
        /\ Len(c.levels) > Len(p)
        /\ Len(c.levels[Len(p)].hits) = 1
        /\ c.levels[Len(p)].hits[1][1] = p[Len(p)]
        /\ c.levels[Len(p)].hits[1][2] \in {"full", "full exact"}

(* C12 as the claim states it: the prefix tree has the shape and order of  *)
(* the command tree and holds name + " " only, and for a node whose alias  *)
(* is neither equal to nor a prefix of any name among the children of its  *)
(* parent, every line the resolver accepts through the alias, the alias    *)
(* being its last token or not, completes to nothing without descent while *)
(* the line with the name descends.                                        *)
C12_AsStated ==
    /\ helper # None => SameShape(app.tree, helper[1].tree)
    /\ Completed =>
        \A p \in PathsFrom(app.tree) :
            ( /\ ResolvedByAlias(p)
              /\ \A j \in 1..Len(Kids(Parent(p))) :
                    ~IsPrefix(NodeAt(app.tree, p).alias[1], Kids(Parent(p))[j].name)
              /\ \/ Typed = LineTo(p, NodeAt(app.tree, p).alias[1])
                 \/ AliasThenSpace(p) )
            => AliasDeadNameAlive(p)

(* C12: the prefix tree built from the command tree has its shape and      *)
(* child order and holds name + " " for each node, nothing of the alias;   *)
(* and in a tree whose sibling names are distinct, non-empty and without   *)
(* white space, for a node with an alias that is the name of no child of   *)
(* its parent, a line the resolver accepts through the alias in which the  *)
(* alias is followed by a space before the cursor gives no candidate and   *)
(* no descent at that node's level, while the same line with the name      *)
(* matches the node in full and descends into it.                          *)
C12_NamesOnly ==
    /\ helper # None => SameShape(app.tree, helper[1].tree)
    /\ (Completed /\ PlainNames /\ NamesNotEmpty) =>
        \A p \in PathsFrom(app.tree) :
            ( /\ ResolvedByAlias(p)
              /\ \A j \in 1..Len(Kids(Parent(p))) :
                    Kids(Parent(p))[j].name # NodeAt(app.tree, p).alias[1]
              /\ AliasThenSpace(p) )
            => AliasDeadNameAlive(p)

(* a line ending with an alias and a space was completed, in a tree where  *)
(* the alias is no name and the resolver takes it                          *)
C12_Witness ==
    /\ Completed
    /\ PlainNames
    /\ NamesNotEmpty
    /\ \E p \in PathsFrom(app.tree) :
        /\ ResolvedByAlias(p)
        /\ \A j \in 1..Len(Kids(Parent(p))) :
            Kids(Parent(p))[j].name # NodeAt(app.tree, p).alias[1]
        /\ Typed = LineTo(p, NodeAt(app.tree, p).alias[1]) \o <<" ">>
        /\ last.ret[2] = <<>>
        /\ Len(last.levels) = Len(p)

====
